---- MODULE Spec2Model ----
(***************************************************************************)
(* A model of artiq/compiler/targets.py: the RunTool context manager, the  *)
(* _dump helper and the Target pipeline (compile, assemble, link, strip,   *)
(* compile_and_link, symbolize, demangle).                                 *)
(*                                                                         *)
(* Text is a sequence of one-character strings.  Bytes are a sequence of   *)
(* byte tokens: an ASCII byte is written as its character, a byte >= 0x80  *)
(* as its two hex digits ("C3", "A9", "FF").  Temporary file paths are     *)
(* natural numbers; the file system maps the paths that exist to bytes.    *)
(***************************************************************************)
EXTENDS Integers, Sequences, FiniteSets, TLC

VARIABLES pc, call, fs, files, procs, dumps, result

vars == <<pc, call, fs, files, procs, dumps, result>>

(***************************************************************************)
(* Bounds of the model.                                                    *)
(***************************************************************************)
\* longest stdout / stderr byte string of the generic RunTool scenario
MaxOut == 2
\* most addresses given to symbolize
MaxAddrs == 2
\* most inlined records the resolver prints after one root record
MaxInlined == 1
\* most names given to demangle
MaxNames == 2
\* most objects given to link
MaxObjects == 2
\* most modules given to compile_and_link
MaxModules == 2
\* most records in one resolver output
MaxRecords == 3

(***************************************************************************)
(* Generic helpers.                                                        *)
(***************************************************************************)
RECURSIVE SeqsUpTo(_, _)
SeqsUpTo(S, n) ==
    IF n = 0 THEN {<<>>}
    ELSE LET shorter == SeqsUpTo(S, n - 1)
         IN  shorter \cup {Append(s, x) : s \in {t \in shorter : Len(t) = n - 1}, x \in S}

RECURSIVE Flatten(_)
Flatten(ss) == IF ss = <<>> THEN <<>> ELSE Head(ss) \o Flatten(Tail(ss))

Range(s) == {s[i] : i \in DOMAIN s}

(***************************************************************************)
(* bytes.decode('utf-8'): strict decoding.  An ASCII byte decodes to its   *)
(* character, the pair C3 A9 to one character, everything else (a lone     *)
(* lead byte, a lone continuation byte, FF) raises UnicodeDecodeError.     *)
(***************************************************************************)
HighBytes == {"C3", "A9", "FF"}

\* whether the bytes are well formed: every C3 is followed by A9, every A9
\* follows a C3, and there is no FF
Utf8Valid(b) ==
    \A i \in DOMAIN b :
        /\ b[i] # "FF"
        /\ b[i] = "C3" => (i + 1 \in DOMAIN b /\ b[i + 1] = "A9")
        /\ b[i] = "A9" => (i - 1 \in DOMAIN b /\ b[i - 1] = "C3")

IsLeadOrAscii(x) == x # "A9"

\* the characters of well-formed bytes: one per ASCII byte, one per C3 A9
Utf8Text(b) ==
    LET heads == SelectSeq(b, IsLeadOrAscii)
    IN  [i \in DOMAIN heads |-> IF heads[i] = "C3" THEN "e'" ELSE heads[i]]

Utf8Decode(b) ==
    IF Utf8Valid(b) THEN [ok |-> TRUE, text |-> Utf8Text(b)] ELSE [ok |-> FALSE, text |-> <<>>]

(***************************************************************************)
(* str.rstrip(), str.split("\n"), str.rsplit(":", 1)                       *)
(***************************************************************************)
Whitespace == {" ", "\n", "\t", "\r"}

Max(S) == CHOOSE x \in S : \A y \in S : y <= x

RStrip(t) ==
    LET kept == {i \in DOMAIN t : t[i] \notin Whitespace}
    IN  IF kept = {} THEN <<>> ELSE SubSeq(t, 1, Max(kept))

\* the position of the k-th newline of t
NewlineAt(t, k) ==
    CHOOSE i \in DOMAIN t : t[i] = "\n" /\ Cardinality({j \in 1..(i - 1) : t[j] = "\n"}) = k - 1

\* always at least one element: "".split("\n") == [""]
SplitLines(t) ==
    LET n == Cardinality({i \in DOMAIN t : t[i] = "\n"})
    IN  [k \in 1..(n + 1) |->
            SubSeq(t, IF k = 1 THEN 1 ELSE NewlineAt(t, k - 1) + 1,
                      IF k = n + 1 THEN Len(t) ELSE NewlineAt(t, k) - 1)]

\* location.rsplit(":", 1): one element when there is no colon
RSplitColon(t) ==
    LET colons == {i \in DOMAIN t : t[i] = ":"}
    IN  IF colons = {} THEN <<t>>
        ELSE <<SubSeq(t, 1, Max(colons) - 1), SubSeq(t, Max(colons) + 1, Len(t))>>

(***************************************************************************)
(* hex(n), int(s, 16), int(s)                                              *)
(***************************************************************************)
HexDigits == <<"0", "1", "2", "3", "4", "5", "6", "7", "8", "9", "a", "b", "c", "d", "e", "f">>

DigitValue(c) == CHOOSE d \in 0..15 : HexDigits[d + 1] = c

IsDigit(c, base) == \E d \in 0..(base - 1) : HexDigits[d + 1] = c

RECURSIVE NatToText(_, _)
NatToText(n, base) ==
    IF n < base THEN <<HexDigits[n + 1]>>
    ELSE Append(NatToText(n \div base, base), HexDigits[(n % base) + 1])

\* hex(n): "0x..." for n >= 0, "-0x..." for n < 0
Hex(n) == IF n >= 0 THEN <<"0", "x">> \o NatToText(n, 16)
          ELSE <<"-", "0", "x">> \o NatToText(-n, 16)

\* whether int(t, base) succeeds (unsigned digits only, which is all the
\* resolver prints)
IsNumeral(t, base) == t # <<>> /\ \A i \in DOMAIN t : IsDigit(t[i], base)

RECURSIVE ParseInt(_, _)
ParseInt(t, base) ==
    IF t = <<>> THEN 0
    ELSE ParseInt(SubSeq(t, 1, Len(t) - 1), base) * base + DigitValue(t[Len(t)])

(***************************************************************************)
(* Command lines.  An argument is a sequence of pieces: literal text, text *)
(* computed at run time (characters), a "{key}" placeholder of the pattern *)
(* and, after str.format, the path of a temporary file.                    *)
(***************************************************************************)
Lit(s) == [kind |-> "lit", text |-> s, chars |-> <<>>, path |-> 0]

Chars(cs) == [kind |-> "chars", text |-> "", chars |-> cs, path |-> 0]

Ph(key) == [kind |-> "ph", text |-> key, chars |-> <<>>, path |-> 0]

Path(p) == [kind |-> "path", text |-> "", chars |-> <<>>, path |-> p]

\* argument.format(**tempnames)
Format(argument, tempnames) ==
    [i \in DOMAIN argument |->
        IF argument[i].kind = "ph" THEN Path(tempnames[argument[i].text])
        ELSE argument[i]]

(***************************************************************************)
(* Errors and results.                                                     *)
(***************************************************************************)
NoError == [type |-> "none", program |-> <<>>, stderr |-> <<>>]

\* Exception("{} invocation failed: {}".format(cmdline[0], stderr.decode('utf-8')))
ToolInvocationError(program, stderrText) ==
    [type |-> "ToolInvocationError", program |-> program, stderr |-> stderrText]

UnicodeDecodeError == [type |-> "UnicodeDecodeError", program |-> <<>>, stderr |-> <<>>]

FileEntry(p) == [kind |-> "file", path |-> p, text |-> <<>>]

TextEntry(t) == [kind |-> "text", path |-> 0, text |-> t]

StdoutKey == "__stdout__"

(***************************************************************************)
(* RunTool                                                                 *)
(***************************************************************************)
\* RunTool(pattern, **tempdata); tempdata keeps the keyword order
RunTool(pattern, tempdata) == [pattern |-> pattern, tempdata |-> tempdata]

\* tempfile.NamedTemporaryFile() picks a name no existing file has
FreshPath(f) == CHOOSE p \in 1..(Cardinality(DOMAIN f) + 1) : p \notin DOMAIN f

\* maketemp: create the file, write the data, flush
maketemp(f, data) ==
    LET p == FreshPath(f)
    IN  [fs |-> (p :> data) @@ f, path |-> p]

\* the loop over self.tempdata of __enter__
RECURSIVE MakeTemps(_, _)
MakeTemps(f, tempdata) ==
    IF tempdata = <<>> THEN [fs |-> f, paths |-> <<>>]
    ELSE LET one  == maketemp(f, Head(tempdata).data)
             rest == MakeTemps(one.fs, Tail(tempdata))
         IN  [fs |-> rest.fs, paths |-> <<one.path>> \o rest.paths]

(***************************************************************************)
(* The external tools, as the child process of subprocess.Popen behaves.   *)
(* A tool is a record of what the process does: its exit code, what it     *)
(* writes to stderr, and by kind                                           *)
(*   "plain"     stdout is tool.out; on exit code 0 the bytes tool.image   *)
(*               are written to the path that follows "-o", if any         *)
(*   "addr2line" one root record per address argument (the address as the  *)
(*               tool prints it, the function, the location), followed by  *)
(*               the inlined records of tool.frames                        *)
(*   "c++filt"   one line per name argument; without arguments the tool    *)
(*               filters its standard input, and prints tool.out           *)
(***************************************************************************)
\* the address is printed zero-padded to eight hex digits
RECURSIVE PadLeft(_, _)
PadLeft(t, width) == IF Len(t) >= width THEN t ELSE PadLeft(<<"0">> \o t, width)

\* the resolver reads an address argument as a hex number with an optional
\* "0x" prefix; anything else reads as 0
ScanAddress(arg) ==
    LET t == IF Len(arg) = 1 /\ arg[1].kind = "chars" THEN arg[1].chars ELSE <<>>
        d == IF Len(t) >= 2 /\ SubSeq(t, 1, 2) = <<"0", "x">> THEN SubSeq(t, 3, Len(t)) ELSE t
    IN  IF IsNumeral(d, 16) THEN ParseInt(d, 16) ELSE 0

FrameText(fr) == fr.function \o <<"\n">> \o fr.file \o <<":">> \o NatToText(fr.line, 10) \o <<"\n">>

RootText(addr, fr) == <<"0", "x">> \o PadLeft(NatToText(addr, 16), 8) \o <<"\n">> \o FrameText(fr)

\* the records of one address: frames[1] is the root, the rest are inlined
RECURSIVE InlinedText(_)
InlinedText(frames) ==
    IF frames = <<>> THEN <<>> ELSE FrameText(Head(frames)) \o InlinedText(Tail(frames))

\* number of leading arguments of the resolver's command line that are
\* not addresses: the program, four flags and --exe=
ResolverFixedArgs == 6

Addr2LineStdout(tool, cmdline) ==
    Flatten([i \in 1..(Len(cmdline) - ResolverFixedArgs) |->
        IF i \in DOMAIN tool.frames
        THEN RootText(ScanAddress(cmdline[ResolverFixedArgs + i]), tool.frames[i][1])
             \o InlinedText(Tail(tool.frames[i]))
        ELSE <<>>])

\* the demangler's table: a mangled name prints demangled, any other name
\* prints unchanged
Demangled(name) == IF name = <<"_", "Z", "1", "f", "v">> THEN <<"f", "(", ")">> ELSE name

CxxFiltStdout(tool, cmdline) ==
    IF Len(cmdline) = 1 THEN tool.out
    ELSE Flatten([i \in 1..(Len(cmdline) - 1) |->
            Demangled(cmdline[i + 1][1].chars) \o <<"\n">>])

ToolStdout(tool, cmdline) ==
    IF tool.kind = "addr2line" THEN Addr2LineStdout(tool, cmdline)
    ELSE IF tool.kind = "c++filt" THEN CxxFiltStdout(tool, cmdline)
    ELSE tool.out

\* the file system after the process has run
ToolWrites(tool, cmdline, f) ==
    IF tool.kind = "plain" /\ tool.rc = 0
       /\ \E i \in 1..(Len(cmdline) - 1) : cmdline[i] = <<Lit("-o")>> /\ cmdline[i + 1][1].kind = "path"
    THEN LET i == CHOOSE k \in 1..(Len(cmdline) - 1) :
                      cmdline[k] = <<Lit("-o")>> /\ cmdline[k + 1][1].kind = "path"
         IN  [f EXCEPT ![cmdline[i + 1][1].path] = tool.image]
    ELSE f

\* subprocess.Popen(cmdline, ...) and process.communicate()
Popen(tool, cmdline, f) ==
    [returncode |-> tool.rc, stdout |-> ToolStdout(tool, cmdline), stderr |-> tool.err,
     fs |-> ToolWrites(tool, cmdline, f)]

(***************************************************************************)
(* RunTool.__enter__ and RunTool.__exit__                                  *)
(***************************************************************************)
Keys(tempdata) == {tempdata[i].key : i \in DOMAIN tempdata}

\* the error __enter__ raises, NoError when it returns
EnterError(process, cmdline) ==
    IF process.returncode # 0
    THEN IF Utf8Decode(process.stderr).ok
         THEN ToolInvocationError(cmdline[1], Utf8Decode(process.stderr).text)
         ELSE UnicodeDecodeError
    ELSE IF Utf8Decode(process.stdout).ok THEN NoError ELSE UnicodeDecodeError

\* the dictionary __enter__ returns: every temporary file under its key,
\* then tempfiles["__stdout__"] = stdout.decode('utf-8')
EnterResults(tempdata, paths, process) ==
    [k \in Keys(tempdata) \cup {StdoutKey} |->
        IF k = StdoutKey THEN TextEntry(Utf8Decode(process.stdout).text)
        ELSE FileEntry(paths[CHOOSE i \in DOMAIN tempdata : tempdata[i].key = k])]

Enter(rt, f, tool) ==
    LET made      == MakeTemps(f, rt.tempdata)
        tempnames == [k \in Keys(rt.tempdata) |->
                         made.paths[CHOOSE i \in DOMAIN rt.tempdata : rt.tempdata[i].key = k]]
        cmdline   == [i \in DOMAIN rt.pattern |-> Format(rt.pattern[i], tempnames)]
        process   == Popen(tool, cmdline, made.fs)
    IN  [fs      |-> process.fs,
         files   |-> made.paths,
         cmdline |-> cmdline,
         error   |-> EnterError(process, cmdline),
         results |-> EnterResults(rt.tempdata, made.paths, process)]

\* __exit__: closing a NamedTemporaryFile deletes it
Exit(f, open) == [p \in DOMAIN f \ Range(open) |-> f[p]]

\* results[key].read()
ReadFile(f, entry) == f[entry.path]

(***************************************************************************)
(* _dump and the environment switches.  os.getenv gives None for a switch  *)
(* that is not set, written here as the value None.                        *)
(***************************************************************************)
None == "<None>"

Error(type) == [type |-> type, program |-> <<>>, stderr |-> <<>>]

\* the dumps _dump(target, kind, suffix, content) adds: none when target is
\* None, a fresh temporary file when target is "", target + suffix otherwise
_dump(target, kind, suffix, content) ==
    IF target # None
    THEN <<[kind |-> kind, content |-> content,
            file |-> IF target = "" THEN "<tempfile>" \o suffix ELSE target \o suffix]>>
    ELSE <<>>

(***************************************************************************)
(* Target.  triple is the class attribute of OR1KTarget.                   *)
(***************************************************************************)
triple == "or1k-linux"

\* a step of the pipeline, for the order in which the steps run
Event(ev, id) == [ev |-> ev, id |-> id]

\* optimize(llmodule): the pass manager runs over the module in place
optimize(llmodule) == [llmodule EXCEPT !.form = "optimized"]

\* variant: the broken IR is dumped to no target
BrokenDumpTargetNone == None

\* the target of the dump of the broken IR: _dump("", ...)
BrokenDumpTarget == ""

\* compile(module): the dumps written, the steps run, and either the
\* module returned or the error raised.  module.fault says where the
\* code generator fails for this module: "build" in build_llvm_ir,
\* "parse" in llvm.parse_assembly, "verify" in llparsedmod.verify(),
\* "emit" in emit_object, "none" nowhere.
compile(module, env) ==
    LET sig    == IF env.sig # None /\ env.sig # ""
                  THEN <<[kind |-> "MODULE_SIGNATURE", content |-> <<"sig", module.id>>, file |-> "<stderr>"]>>
                  ELSE <<>>
        before == sig \o _dump(env.ir, "ARTIQ IR", ".txt", <<"artiq_ir", module.id>>)
        llmod  == <<"llvm_ir", module.id>>
        parsed == [id |-> module.id, form |-> "parsed", fault |-> module.fault]
    IN  IF module.fault = "build"
        THEN [dumps |-> before, log |-> <<Event("build", module.id)>>,
              error |-> Error("BuildError"), returned |-> FALSE, value |-> <<>>]
        ELSE IF module.fault \in {"parse", "verify"}
        THEN [dumps |-> before \o _dump(BrokenDumpTarget, "LLVM IR (broken)", ".ll", llmod),
              log |-> <<Event("build", module.id), Event("verify", module.id)>>,
              error |-> Error("RuntimeError"), returned |-> FALSE, value |-> <<>>]
        ELSE [dumps |-> before
                        \o _dump(env.unopt_llvm, "LLVM IR (generated)", "_unopt.ll", <<"parsed", module.id>>)
                        \o _dump(env.llvm, "LLVM IR (optimized)", ".ll", <<"optimized", module.id>>),
              log |-> <<Event("build", module.id), Event("verify", module.id), Event("optimize", module.id)>>,
              error |-> NoError, returned |-> TRUE, value |-> optimize(parsed)]

\* the bytes emit_object produces for a module
ObjectOf(llmodule) == <<"o", llmodule.id>>

\* assemble(llmodule)
assemble(llmodule, env) ==
    [dumps |-> _dump(env.asm, "Assembly", ".s", <<"asm", llmodule.id>>),
     log |-> <<Event("assemble", llmodule.id)>>,
     error |-> IF llmodule.fault = "emit" THEN Error("RuntimeError") ELSE NoError,
     returned |-> llmodule.fault # "emit",
     value |-> IF llmodule.fault = "emit" THEN <<>> ELSE ObjectOf(llmodule)]

\* "obj{}".format(index), index counted from 0
ObjKey(index) == "obj" \o ToString(index)

\* variant: the object placeholders in reverse order
LinkToolReversed(objects) ==
    RunTool(<<<<Lit(triple \o "-ld")>>, <<Lit("-shared")>>, <<Lit("--eh-frame-hdr")>>>>
              \o [i \in DOMAIN objects |-> <<Ph(ObjKey(Len(objects) - i))>>]
              \o <<<<Lit("-o")>>, <<Ph("output")>>>>,
            <<[key |-> "output", data |-> <<>>]>>
              \o [i \in DOMAIN objects |-> [key |-> ObjKey(i - 1), data |-> objects[i]]])

\* the RunTool of link(objects)
LinkTool(objects) ==
    RunTool(<<<<Lit(triple \o "-ld")>>, <<Lit("-shared")>>, <<Lit("--eh-frame-hdr")>>>>
              \o [i \in DOMAIN objects |-> <<Ph(ObjKey(i - 1))>>]
              \o <<<<Lit("-o")>>, <<Ph("output")>>>>,
            <<[key |-> "output", data |-> <<>>]>>
              \o [i \in DOMAIN objects |-> [key |-> ObjKey(i - 1), data |-> objects[i]]])

\* link(objects): the with statement around the linker.  When __enter__
\* raises, the with statement never calls __exit__.
link(objects, env, f, tool) ==
    LET e == Enter(LinkTool(objects), f, tool)
    IN  IF e.error # NoError
        THEN [fs |-> e.fs, files |-> e.files, procs |-> <<e.cmdline>>, before |-> e.fs,
              dumps |-> <<>>, log |-> <<Event("link", "")>>,
              error |-> e.error, returned |-> FALSE, value |-> <<>>]
        ELSE LET library == ReadFile(e.fs, e.results["output"])
             IN  [fs |-> Exit(e.fs, e.files), files |-> e.files, procs |-> <<e.cmdline>>,
                  before |-> e.fs,
                  dumps |-> _dump(env.elf, "Shared library", ".elf", library),
                  log |-> <<Event("link", "")>>,
                  error |-> NoError, returned |-> TRUE, value |-> library]

\* strip(library)
strip(library, f, tool) ==
    LET rt == RunTool(<<<<Lit(triple \o "-strip")>>, <<Lit("--strip-debug")>>, <<Ph("library")>>,
                        <<Lit("-o")>>, <<Ph("output")>>>>,
                      <<[key |-> "library", data |-> library], [key |-> "output", data |-> <<>>]>>)
        e  == Enter(rt, f, tool)
    IN  IF e.error # NoError
        THEN [fs |-> e.fs, files |-> e.files, procs |-> <<e.cmdline>>,
              error |-> e.error, returned |-> FALSE, value |-> <<>>]
        ELSE [fs |-> Exit(e.fs, e.files), files |-> e.files, procs |-> <<e.cmdline>>,
              error |-> NoError, returned |-> TRUE, value |-> ReadFile(e.fs, e.results["output"])]

\* self.assemble(self.compile(module)) for one module, after the objects
\* built so far
BuildObject(built, module, env) ==
    LET c == compile(module, env)
        a == assemble(c.value, env)
    IN  IF c.error # NoError
        THEN [dumps |-> built.dumps \o c.dumps, log |-> built.log \o c.log,
              error |-> c.error, objects |-> <<>>]
        ELSE [dumps |-> built.dumps \o c.dumps \o a.dumps, log |-> built.log \o c.log \o a.log,
              error |-> a.error,
              objects |-> IF a.error = NoError THEN Append(built.objects, a.value) ELSE <<>>]

\* the list comprehension of compile_and_link: the modules in turn; the
\* first error ends it
RECURSIVE BuildObjects(_, _, _)
BuildObjects(built, modules, env) ==
    IF modules = <<>> \/ built.error # NoError THEN built
    ELSE BuildObjects(BuildObject(built, Head(modules), env), Tail(modules), env)

\* the call of link in compile_and_link, reached when every module is built
LinkBuilt(built, l) == [l EXCEPT !.dumps = built.dumps \o l.dumps, !.log = built.log \o l.log]

NotLinked(built, f) ==
    [fs |-> f, files |-> <<>>, procs |-> <<>>, before |-> f,
     dumps |-> built.dumps, log |-> built.log,
     error |-> built.error, returned |-> FALSE, value |-> <<>>]

\* variant: link is called whatever happened to the modules
CompileAndLinkBuiltAlways(built, env, f, tool) ==
    LinkBuilt(built, link(built.objects, env, f, tool))

CompileAndLinkBuilt(built, env, f, tool) ==
    IF built.error # NoError THEN NotLinked(built, f)
    ELSE LinkBuilt(built, link(built.objects, env, f, tool))

\* compile_and_link(modules)
compile_and_link(modules, env, f, tool) ==
    CompileAndLinkBuilt(
        BuildObjects([dumps |-> <<>>, log |-> <<>>, error |-> NoError, objects |-> <<>>], modules, env),
        env, f, tool)

(***************************************************************************)
(* symbolize and demangle                                                  *)
(***************************************************************************)
Sentinels == {<<"?", "?">>, <<"<", "s", "y", "n", "t", "h", "e", "s", "i", "z", "e", "d", ">">>}

\* the address an inlined record is given: backtrace[-1][4]
InlinedAddress(backtrace) == backtrace[Len(backtrace)][5]

\* whether that expression raises (backtrace[-1] of an empty list)
InlinedAddressFails(backtrace) == backtrace = <<>>

\* the while loop of symbolize over the lines left
RECURSIVE ParseRecords(_, _)
ParseRecords(lines, backtrace) ==
    IF lines = <<>> THEN [error |-> NoError, backtrace |-> backtrace]
    ELSE LET address_or_function == Head(lines)
             isRoot == Len(address_or_function) >= 2
                       /\ SubSeq(address_or_function, 1, 2) = <<"0", "x">>
             digits == SubSeq(address_or_function, 3, Len(address_or_function))
         IN  IF isRoot /\ ~IsNumeral(digits, 16)
             THEN [error |-> Error("ValueError"), backtrace |-> <<>>]
             ELSE IF isRoot /\ Len(lines) < 2
             THEN [error |-> Error("StopIteration"), backtrace |-> <<>>]
             ELSE IF ~isRoot /\ InlinedAddressFails(backtrace)
             THEN [error |-> Error("IndexError"), backtrace |-> <<>>]
             ELSE LET addr     == IF isRoot THEN ParseInt(digits, 16) + 1
                                  ELSE InlinedAddress(backtrace)
                      function == IF isRoot THEN lines[2] ELSE address_or_function
                      rest     == IF isRoot THEN Tail(Tail(lines)) ELSE Tail(lines)
                  IN  IF rest = <<>>
                      THEN [error |-> Error("StopIteration"), backtrace |-> <<>>]
                      ELSE LET parts == RSplitColon(Head(rest))
                           IN  IF Len(parts) # 2
                               THEN [error |-> Error("ValueError"), backtrace |-> <<>>]
                               ELSE IF parts[1] \in Sentinels
                               THEN ParseRecords(Tail(rest), backtrace)
                               ELSE IF ~IsNumeral(parts[2], 10)
                               THEN [error |-> Error("ValueError"), backtrace |-> <<>>]
                               ELSE ParseRecords(Tail(rest),
                                        Append(backtrace,
                                               <<parts[1], ParseInt(parts[2], 10), -1, function, addr>>))

\* variant: the address is passed without the offset
OffsetAddressNone(addr) == Hex(addr)

\* offset_addresses = [hex(addr - 1) for addr in addresses]
OffsetAddress(addr) == Hex(addr - 1)

\* the RunTool of symbolize(library, addresses)
ResolverTool(library, addresses) ==
    RunTool(<<<<Lit(triple \o "-addr2line")>>, <<Lit("--addresses")>>, <<Lit("--functions")>>,
              <<Lit("--inlines")>>, <<Lit("--demangle")>>, <<Lit("--exe="), Ph("library")>>>>
              \o [i \in DOMAIN addresses |-> <<Chars(OffsetAddress(addresses[i]))>>],
            <<[key |-> "library", data |-> library]>>)

\* variant: the fast path is never taken
IsEmptyListNever(addresses) == FALSE

\* the fast path: addresses == []
IsEmptyList(addresses) == addresses = <<>>

\* symbolize(library, addresses)
symbolize(library, addresses, f, tool) ==
    IF IsEmptyList(addresses)
    THEN [fs |-> f, files |-> <<>>, procs |-> <<>>,
          error |-> NoError, returned |-> TRUE, value |-> <<>>]
    ELSE LET e == Enter(ResolverTool(library, addresses), f, tool)
         IN  IF e.error # NoError
             THEN [fs |-> e.fs, files |-> e.files, procs |-> <<e.cmdline>>,
                   error |-> e.error, returned |-> FALSE, value |-> <<>>]
             ELSE LET lines  == SplitLines(RStrip(e.results[StdoutKey].text))
                      parsed == ParseRecords(lines, <<>>)
                  IN  [fs |-> Exit(e.fs, e.files), files |-> e.files, procs |-> <<e.cmdline>>,
                       error |-> parsed.error, returned |-> parsed.error = NoError,
                       value |-> parsed.backtrace]

\* results["__stdout__"].rstrip().split("\n")
OutputLines(stdout) == SplitLines(RStrip(stdout))

\* demangle(names)
demangle(names, f, tool) ==
    LET rt == RunTool(<<<<Lit(triple \o "-c++filt")>>>> \o [i \in DOMAIN names |-> <<Chars(names[i])>>],
                      <<>>)
        e  == Enter(rt, f, tool)
    IN  IF e.error # NoError
        THEN [fs |-> e.fs, files |-> e.files, procs |-> <<e.cmdline>>,
              error |-> e.error, returned |-> FALSE, value |-> <<>>]
        ELSE [fs |-> Exit(e.fs, e.files), files |-> e.files, procs |-> <<e.cmdline>>,
              error |-> NoError, returned |-> TRUE, value |-> OutputLines(e.results[StdoutKey].text)]

(***************************************************************************)
(* The calls the model makes and what the tools answer.                    *)
(***************************************************************************)
ByteVals == {"A", "C3", "A9", "FF"}

ByteStrings == SeqsUpTo(ByteVals, MaxOut)

ExitCodes == {0, 1}

Image == <<"E", "L", "F">>

Images == {Image, <<"FF">>}

Switch == {None, "", "out"}

NoDumps == [sig |-> None, ir |-> None, unopt_llvm |-> None, llvm |-> None, asm |-> None, elf |-> None]

\* the switches compile reads, in every combination
CompileEnvs ==
    {[NoDumps EXCEPT !.sig = a, !.ir = b, !.unopt_llvm = c, !.llvm = d] : a, b, c, d \in Switch}

\* all switches alike
UniformEnvs == {[k \in DOMAIN NoDumps |-> v] : v \in Switch}

Faults == {"none", "build", "parse", "verify", "emit"}

Module(id, fault) == [id |-> id, fault |-> fault]

\* the module lists: the i-th module has id i, any fault
ModuleLists ==
    {<<>>} \cup UNION {{[i \in 1..n |-> Module(ToString(i), ft[i])] : ft \in [1..n -> Faults]} : n \in 1..MaxModules}

ObjectSet == {ObjectOf(Module("1", "none")), ObjectOf(Module("2", "none"))}

PlainTool(rc, out, err, image) ==
    [kind |-> "plain", rc |-> rc, out |-> out, err |-> err, image |-> image, frames |-> <<>>]

\* the shapes of RunTool the generic scope is run with: the one of strip
\* (two temporary files) and one without temporary files
Scopes ==
    {RunTool(<<<<Lit(triple \o "-strip")>>, <<Lit("--strip-debug")>>, <<Ph("library")>>,
               <<Lit("-o")>>, <<Ph("output")>>>>,
             <<[key |-> "library", data |-> Image], [key |-> "output", data |-> <<>>]>>),
     RunTool(<<<<Lit(triple \o "-c++filt")>>, <<Chars(<<"g">>)>>>>, <<>>)}

Addresses == {1, 16, 27}

Files == {<<"a", ".", "c">>} \cup Sentinels

Frame(function, file, line) == [function |-> function, file |-> file, line |-> line]

RootFrames == {Frame(<<"f">>, file, 12) : file \in Files}

InlinedFrames == {Frame(<<"g">>, file, 3) : file \in Files}

\* what the resolver prints for n addresses: for each address a root frame
\* and then inlined frames, at most MaxRecords records in all
RECURSIVE FrameLists(_, _)
FrameLists(n, budget) ==
    IF n = 0 THEN {<<>>}
    ELSE UNION {{<<<<r>> \o inl>> \o rest :
                    r \in RootFrames,
                    rest \in FrameLists(n - 1, budget - 1 - Len(inl))} :
                inl \in {s \in SeqsUpTo(InlinedFrames, MaxInlined) : Len(s) + n <= budget}}

ResolverBehaviours(n) ==
    {[kind |-> "addr2line", rc |-> 0, out |-> <<>>, err |-> <<>>, image |-> <<>>, frames |-> fr] :
        fr \in FrameLists(n, MaxRecords)}
    \cup {[kind |-> "addr2line", rc |-> 1, out |-> <<>>, err |-> <<"e">>, image |-> <<>>,
           frames |-> [i \in 1..n |-> <<Frame(<<"f">>, <<"a", ".", "c">>, 12)>>]]}

Mangled == <<"_", "Z", "1", "f", "v">>

Names == {Mangled, <<"g">>}

FilterBehaviours ==
    {[kind |-> "c++filt", rc |-> rc, out |-> out, err |-> <<"e">>, image |-> <<>>, frames |-> <<>>] :
        rc \in ExitCodes, out \in {<<>>, <<"x", "\n">>}}

Pending == [returned |-> FALSE, error |-> NoError, value |-> <<>>, log |-> <<>>]

WithCalls ==
    {[op |-> "with", rt |-> rt, tool |-> PlainTool(rc, out, err, Image)] :
        rt \in Scopes, rc \in ExitCodes, out \in ByteStrings, err \in ByteStrings}

StripCalls ==
    {[op |-> "strip", library |-> Image, tool |-> PlainTool(rc, <<>>, <<"e">>, image)] :
        rc \in ExitCodes, image \in Images}

LinkCalls ==
    {[op |-> "link", objects |-> objs, env |-> env, tool |-> PlainTool(rc, <<>>, <<"e">>, image)] :
        objs \in SeqsUpTo(ObjectSet, MaxObjects), env \in UniformEnvs,
        rc \in ExitCodes, image \in Images}

SymbolizeCalls ==
    UNION {{[op |-> "symbolize", library |-> Image, addresses |-> addrs, tool |-> t] :
               t \in ResolverBehaviours(Len(addrs))} :
           addrs \in SeqsUpTo(Addresses, MaxAddrs)}

DemangleCalls ==
    {[op |-> "demangle", names |-> names, tool |-> t] :
        names \in SeqsUpTo(Names, MaxNames), t \in FilterBehaviours}

CompileCalls ==
    {[op |-> "compile", module |-> Module("1", fault), env |-> env] :
        fault \in Faults, env \in CompileEnvs}

CompileAndLinkCalls ==
    {[op |-> "compile_and_link", modules |-> ms, env |-> env, tool |-> PlainTool(rc, <<>>, <<"e">>, Image)] :
        ms \in ModuleLists, env \in UniformEnvs, rc \in ExitCodes}

Calls == WithCalls \cup StripCalls \cup LinkCalls \cup SymbolizeCalls \cup DemangleCalls
         \cup CompileCalls \cup CompileAndLinkCalls

Init ==
    /\ call \in Calls
    /\ pc = "new"
    /\ fs = <<>>
    /\ files = <<>>
    /\ procs = <<>>
    /\ dumps = <<>>
    /\ result = Pending

(***************************************************************************)
(* A with statement over a RunTool, one method at a time.                  *)
(***************************************************************************)
\* __enter__: when it raises, the with statement is over and __exit__ is
\* never called
WithEnter ==
    /\ pc = "new" /\ call.op = "with"
    /\ LET e == Enter(call.rt, fs, call.tool)
       IN  /\ fs' = e.fs
           /\ files' = e.files
           /\ procs' = Append(procs, e.cmdline)
           /\ IF e.error # NoError
              THEN /\ pc' = "enter_raised"
                   /\ result' = [Pending EXCEPT !.error = e.error]
              ELSE /\ pc' = "body"
                   /\ result' = [Pending EXCEPT !.value = e.results]
    /\ UNCHANGED <<call, dumps>>

\* the body of the with statement returns
WithBodyReturn ==
    /\ pc = "body"
    /\ pc' = "exiting"
    /\ result' = [result EXCEPT !.returned = TRUE]
    /\ UNCHANGED <<call, fs, files, procs, dumps>>

\* the body of the with statement raises
WithBodyRaise ==
    /\ pc = "body"
    /\ pc' = "exiting"
    /\ result' = [result EXCEPT !.error = Error("BodyError")]
    /\ UNCHANGED <<call, fs, files, procs, dumps>>

\* __exit__
WithExit ==
    /\ pc = "exiting"
    /\ fs' = Exit(fs, files)
    /\ pc' = "ended"
    /\ UNCHANGED <<call, files, procs, dumps, result>>

\* after __enter__ raised, the RunTool object and its open files are
\* unreachable once the exception is dropped; when the interpreter then
\* finalizes them, each NamedTemporaryFile deletes its file
Finalize ==
    /\ pc = "enter_raised"
    /\ fs' = Exit(fs, files)
    /\ pc' = "collected"
    /\ UNCHANGED <<call, files, procs, dumps, result>>

(***************************************************************************)
(* The methods of Target, each one call.                                   *)
(***************************************************************************)
Finish(r) ==
    /\ pc' = "done"
    /\ fs' = r.fs
    /\ files' = r.files
    /\ procs' = r.procs
    /\ UNCHANGED call

Strip ==
    /\ pc = "new" /\ call.op = "strip"
    /\ LET r == strip(call.library, fs, call.tool)
       IN  /\ Finish(r)
           /\ result' = [returned |-> r.returned, error |-> r.error, value |-> r.value, log |-> <<>>]
    /\ UNCHANGED dumps

Link ==
    /\ pc = "new" /\ call.op = "link"
    /\ LET r == link(call.objects, call.env, fs, call.tool)
       IN  /\ Finish(r)
           /\ dumps' = r.dumps
           /\ result' = [returned |-> r.returned, error |-> r.error, value |-> r.value,
                         log |-> r.log, before |-> r.before]

Symbolize ==
    /\ pc = "new" /\ call.op = "symbolize"
    /\ LET r == symbolize(call.library, call.addresses, fs, call.tool)
       IN  /\ Finish(r)
           /\ result' = [returned |-> r.returned, error |-> r.error, value |-> r.value, log |-> <<>>]
    /\ UNCHANGED dumps

Demangle ==
    /\ pc = "new" /\ call.op = "demangle"
    /\ LET r == demangle(call.names, fs, call.tool)
       IN  /\ Finish(r)
           /\ result' = [returned |-> r.returned, error |-> r.error, value |-> r.value, log |-> <<>>]
    /\ UNCHANGED dumps

Compile ==
    /\ pc = "new" /\ call.op = "compile"
    /\ LET r == compile(call.module, call.env)
       IN  /\ pc' = "done"
           /\ dumps' = r.dumps
           /\ result' = [returned |-> r.returned, error |-> r.error, value |-> r.value, log |-> r.log]
    /\ UNCHANGED <<call, fs, files, procs>>

CompileAndLink ==
    /\ pc = "new" /\ call.op = "compile_and_link"
    /\ LET r == compile_and_link(call.modules, call.env, fs, call.tool)
       IN  /\ Finish(r)
           /\ dumps' = r.dumps
           /\ result' = [returned |-> r.returned, error |-> r.error, value |-> r.value,
                         log |-> r.log, before |-> r.before]

Next ==
    \/ WithEnter
    \/ WithBodyReturn
    \/ WithBodyRaise
    \/ WithExit
    \/ Finalize
    \/ Strip
    \/ Link
    \/ Symbolize
    \/ Demangle
    \/ Compile
    \/ CompileAndLink

Spec == Init /\ [][Next]_vars

(***************************************************************************)
(* Properties.                                                             *)
(***************************************************************************)
IsPrefix(a, b) == Len(a) <= Len(b) /\ SubSeq(b, 1, Len(a)) = a

ScopeEnded == pc \in {"ended", "enter_raised", "collected", "done"}

\* C1: once the scope of a RunTool invocation has ended (the body returned
\* or raised and __exit__ ran, or __enter__ itself raised), none of the
\* temporary files it created exists.
C1_NoTempFileAfterScope ==
    ScopeEnded => \A i \in DOMAIN files : files[i] \notin DOMAIN fs

EnterDone == call.op = "with" /\ pc \in {"body", "enter_raised"}

\* C2: __enter__ fails with the tool invocation error exactly when the exit
\* code is not 0; the error carries the program name (the first element of
\* the substituted command line) and the tool's stderr; on exit code 0 the
\* result holds every temporary file under its placeholder name and the
\* decoded stdout under "__stdout__".
C2_ErrorIffNonZeroExit ==
    EnterDone =>
        /\ (result.error.type = "ToolInvocationError") <=> (call.tool.rc # 0)
        /\ call.tool.rc # 0 =>
              /\ result.error.program = procs[1][1]
              /\ Utf8Decode(call.tool.err).ok
              /\ result.error.stderr = Utf8Decode(call.tool.err).text
        /\ call.tool.rc = 0 =>
              /\ pc = "body"
              /\ DOMAIN result.value = Keys(call.rt.tempdata) \cup {StdoutKey}
              /\ \A i \in DOMAIN call.rt.tempdata :
                    result.value[call.rt.tempdata[i].key] = FileEntry(files[i])
              /\ result.value[StdoutKey].kind = "text"

SymbolizeDone == call.op = "symbolize" /\ pc = "done"

\* C3: symbolize of an empty address list returns an empty list, starts no
\* process and creates no temporary file.
C3_EmptyAddresses ==
    (SymbolizeDone /\ call.addresses = <<>>) =>
        /\ result.returned /\ result.error = NoError /\ result.value = <<>>
        /\ procs = <<>>
        /\ files = <<>> /\ fs = <<>>

C3_Witness == SymbolizeDone /\ call.addresses = <<>> /\ result.returned

\* the resolver answered with one root record per address, no inlined
\* record and no sentinel file name
PlainResolution ==
    /\ SymbolizeDone /\ call.addresses # <<>> /\ call.tool.rc = 0
    /\ \A i \in DOMAIN call.tool.frames :
          Len(call.tool.frames[i]) = 1 /\ call.tool.frames[i][1].file \notin Sentinels

\* C4: when every address resolves to one root record with a real file
\* name, the resolver is given A - 1 for each address A and symbolize
\* returns one entry per address, in input order, with address A and
\* column -1.
C4_OneEntryPerAddress ==
    PlainResolution =>
        /\ Len(procs) = 1
        /\ Len(procs[1]) = ResolverFixedArgs + Len(call.addresses)
        /\ \A i \in DOMAIN call.addresses :
              /\ procs[1][ResolverFixedArgs + i][1].kind = "chars"
              /\ ScanAddress(procs[1][ResolverFixedArgs + i]) = call.addresses[i] - 1
        /\ result.returned
        /\ Len(result.value) = Len(call.addresses)
        /\ \A i \in DOMAIN call.addresses :
              result.value[i] = <<call.tool.frames[i][1].file, call.tool.frames[i][1].line, -1,
                                  call.tool.frames[i][1].function, call.addresses[i]>>

C4_Witness ==
    /\ PlainResolution /\ Len(call.addresses) = 2 /\ call.addresses[1] # call.addresses[2]
    /\ Len(result.value) = 2

\* the records of the resolver output, in output order, each with the
\* address of the root record it belongs to
RecordsOf(addresses, frames) ==
    Flatten([i \in DOMAIN frames |->
        [j \in DOMAIN frames[i] |-> [frame |-> frames[i][j], address |-> addresses[i]]]])

HasRealFile(rec) == rec.frame.file \notin Sentinels

\* C5: a record whose file name is "??" or "<synthesized>" gives no entry,
\* every other record gives exactly one entry, in the order of the output.
C5_SentinelsDroppedOthersKept ==
    (SymbolizeDone /\ call.addresses # <<>> /\ call.tool.rc = 0) =>
        LET kept == SelectSeq(RecordsOf(call.addresses, call.tool.frames), HasRealFile)
        IN  /\ result.returned
            /\ Len(result.value) = Len(kept)
            /\ \A k \in DOMAIN kept :
                  /\ result.value[k][1] = kept[k].frame.file
                  /\ result.value[k][2] = kept[k].frame.line
                  /\ result.value[k][4] = kept[k].frame.function

\* C6: symbolize completes for every resolver output, and every entry it
\* returns carries the address of the root record its record belongs to.
C6_InlinedCarriesRootAddress ==
    (SymbolizeDone /\ call.addresses # <<>> /\ call.tool.rc = 0) =>
        LET kept == SelectSeq(RecordsOf(call.addresses, call.tool.frames), HasRealFile)
        IN  /\ result.returned
            /\ Len(result.value) = Len(kept)
            /\ \A k \in DOMAIN kept : result.value[k][5] = kept[k].address

BrokenIR == call.op = "compile" /\ pc = "done" /\ call.module.fault \in {"parse", "verify"}

\* C7: when the generated IR fails parsing or verification, compile dumps
\* the broken IR whatever the dump switches are, raises the error, never
\* runs optimize and returns no module.
C7_BrokenIRDumped ==
    BrokenIR =>
        /\ \E i \in DOMAIN dumps :
              dumps[i].kind = "LLVM IR (broken)" /\ dumps[i].content = <<"llvm_ir", call.module.id>>
        /\ result.error = Error("RuntimeError")
        /\ ~result.returned
        /\ \A i \in DOMAIN result.log : result.log[i].ev # "optimize"

C7_Witness == BrokenIR /\ call.env.llvm = None /\ call.env.unopt_llvm = None /\ dumps # <<>>

\* C8: demangle starts the demangler once with all the names and returns
\* as many lines as names, the i-th being the demangler's line for the
\* i-th name; also for no names.
C8_SameLength ==
    (call.op = "demangle" /\ pc = "done" /\ call.tool.rc = 0) =>
        /\ Len(procs) = 1
        /\ Len(procs[1]) = 1 + Len(call.names)
        /\ \A i \in DOMAIN call.names : procs[1][i + 1] = <<Chars(call.names[i])>>
        /\ result.returned
        /\ Len(result.value) = Len(call.names)
        /\ \A i \in DOMAIN call.names : result.value[i] = Demangled(call.names[i])

LinkDone == call.op = "link" /\ pc = "done"

\* C9: link runs the linker once, with the command line
\*   {triple}-ld -shared --eh-frame-hdr <obj0> ... <obj(n-1)> -o <out>
\* where <obj i> is a temporary file of its own holding the i-th object and
\* <out> is another temporary file, and on exit code 0 returns the bytes
\* found in <out>.
C9_LinkCommandLine ==
    LinkDone =>
        LET n == Len(call.objects)
        IN  /\ Len(procs) = 1
            /\ Len(procs[1]) = n + 5
            /\ SubSeq(procs[1], 1, 3)
                  = <<<<Lit("or1k-linux-ld")>>, <<Lit("-shared")>>, <<Lit("--eh-frame-hdr")>>>>
            /\ procs[1][n + 4] = <<Lit("-o")>>
            /\ \A i \in 4..(n + 3) \cup {n + 5} :
                  /\ Len(procs[1][i]) = 1 /\ procs[1][i][1].kind = "path"
                  /\ procs[1][i][1].path \in DOMAIN result.before
                  /\ \A j \in 4..(n + 3) \cup {n + 5} : procs[1][j] = procs[1][i] => j = i
            /\ \A i \in 1..n : result.before[procs[1][i + 3][1].path] = call.objects[i]
            /\ call.tool.rc = 0 =>
                  /\ result.returned
                  /\ result.value = result.before[procs[1][n + 5][1].path]
                  /\ result.value = call.tool.image

C9_Witness ==
    /\ LinkDone /\ Len(call.objects) = 2 /\ call.objects[1] # call.objects[2]
    /\ call.tool.rc = 0 /\ result.returned

CompileAndLinkDone == call.op = "compile_and_link" /\ pc = "done"

\* the steps of compile and assemble for every module, in module order
ExpectedSteps(modules) ==
    Flatten([i \in DOMAIN modules |->
        <<Event("build", modules[i].id), Event("verify", modules[i].id),
          Event("optimize", modules[i].id), Event("assemble", modules[i].id)>>])

IsBuildStep(e) == e.ev # "link"

IsLinkStep(e) == e.ev = "link"

AllBuilt(modules) == \A i \in DOMAIN modules : modules[i].fault = "none"

\* C10: compile_and_link compiles and then assembles each module in input
\* order; the linker runs at most once, only after every module was
\* compiled and assembled, on the objects in module order; when compile or
\* assemble fails the error propagates: no step runs twice, the linker
\* does not run and no image is returned.
C10_LinkAfterAllBuilt ==
    CompileAndLinkDone =>
        LET steps == SelectSeq(result.log, IsBuildStep)
            n     == Len(call.modules)
        IN  /\ IsPrefix(steps, ExpectedSteps(call.modules))
            /\ Len(SelectSeq(result.log, IsLinkStep)) = Len(procs)
            /\ Len(procs) <= 1
            /\ Len(procs) = 1 <=> AllBuilt(call.modules)
            /\ Len(procs) = 1 =>
                  /\ steps = ExpectedSteps(call.modules)
                  /\ result.log[Len(result.log)].ev = "link"
                  /\ Len(procs[1]) = n + 5
                  /\ \A i \in 1..n :
                        result.before[procs[1][i + 3][1].path] = ObjectOf(call.modules[i])
            /\ ~AllBuilt(call.modules) =>
                  /\ ~result.returned
                  /\ result.error # NoError
                  /\ result.value = <<>>
                  /\ fs = <<>>

C10_Witness ==
    /\ CompileAndLinkDone /\ Len(call.modules) = 2
    /\ call.modules[1].fault = "none" /\ call.modules[2].fault = "emit"
    /\ Len(result.log) = 8 /\ procs = <<>> /\ result.error = Error("RuntimeError")

====
